---- MODULE Spec2Model ----
(***************************************************************************)
(* eyebright: a command-line tool that reads and sets the backlight level  *)
(* through /sys/class/backlight/intel_backlight/{brightness,max_brightness}*)
(*                                                                         *)
(* Strings are sequences of one-character strings, so that slicing,        *)
(* prefix/suffix tests and integer parsing are computed, not assumed.      *)
(* f64 values are exact rationals n/d (plus NaN and +inf); the one place   *)
(* where IEEE-754 rounding error is observable, a product that is exactly  *)
(* k + 1/2 in the reals, is handled by F64BelowTie.                        *)
(***************************************************************************)
EXTENDS Integers, Sequences, FiniteSets, TLC

VARIABLES
    brightness_file,      \* number held by PATH_BRIGHTNESS
    max_brightness_file,  \* number held by PATH_MAX_BRIGHTNESS
    pc,                   \* position of the process: "start", "execute", "calculate", "write", "exited"
    action,               \* main's `action`
    max_brightness,       \* execute's `max_brightness`
    percentage,           \* execute's `percentage` (Option<f64>)
    status,               \* exit status of the process
    stdout,               \* what Get printed
    trace,                \* parse and device operations of the current process, in order, with outcome
    brightness0,          \* level in PATH_BRIGHTNESS when the current process started
    previous,             \* what the previous process did (Set(_, Absolute) that exited 0, or Other)
    input,                \* argument of FromStr::from_str (parser specification)
    parsed                \* its result (parser specification)

vars == <<brightness_file, max_brightness_file, pc, action, max_brightness, percentage,
          status, stdout, trace, brightness0, previous, input, parsed>>

(***************************************************************************)
(* Bounds                                                                  *)
(***************************************************************************)
\* longest arbitrary string handed to the parser
MaxLen == 3
\* largest number written out in decimal and handed to the parser
MaxNumber == 300
\* max_brightness values 0..LowMax are all explored (plus the two below)
LowMax == 4
\* the brightness file may hold up to this much more than max_brightness
Over == 1

MaxLevels == (0 .. LowMax) \cup {34, 100}

(***************************************************************************)
(* Characters and strings                                                  *)
(***************************************************************************)
Digits == <<"0", "1", "2", "3", "4", "5", "6", "7", "8", "9">>

\* char::to_digit(10): -1 stands for None
to_digit(c) ==
    IF \E i \in 1 .. 10 : Digits[i] = c
    THEN (CHOOSE i \in 1 .. 10 : Digits[i] = c) - 1
    ELSE -1

RECURSIVE ToDecimal(_)
\* format!("{i}")
ToDecimal(n) ==
    IF n < 10 THEN <<Digits[n + 1]>>
    ELSE ToDecimal(n \div 10) \o <<Digits[(n % 10) + 1]>>

Alphabet == {"0", "1", "5", "+", "-", "%", ".", "h"}

StringsUpTo(n) == UNION {[1 .. k -> Alphabet] : k \in 0 .. n}

Signs == {<<>>, <<"+">>, <<"-">>}

Percents == {<<>>, <<"%">>}

\* sign, number, optional '%': the strings test_action_parser builds, continued past 100
Numerals(max) == {sg \o ToDecimal(n) \o p : sg \in Signs, n \in 0 .. max, p \in Percents}

(***************************************************************************)
(* Action, SetMode, Error                                                  *)
(***************************************************************************)
SetModes == {"Absolute", "RelativeUp", "RelativeDown"}

Get == [tag |-> "Get"]

Set(change, mode) == [tag |-> "Set", change |-> change, mode |-> mode]

NoAction == [tag |-> "NoAction"]

Ok(v) == [ok |-> TRUE, val |-> v]

\* Error::with_cause / Error::msg (cause "None")
Err(message, cause) == [ok |-> FALSE, message |-> message, cause |-> cause]

(***************************************************************************)
(* str::parse::<u8>: optional '+', then one or more decimal digits, the    *)
(* value at most 255.                                                      *)
(***************************************************************************)
RECURSIVE parse_u8_digits(_, _)
parse_u8_digits(digits, result) ==
    IF digits = <<>> THEN Ok(result)
    ELSE LET x == to_digit(Head(digits))
             mul == result * 10
         IN  IF x = -1 THEN Err("parse_u8", "InvalidDigit")
             ELSE IF mul > 255 THEN Err("parse_u8", "PosOverflow")
             ELSE IF mul + x > 255 THEN Err("parse_u8", "PosOverflow")
             ELSE parse_u8_digits(Tail(digits), mul + x)

parse_u8(s) ==
    IF s = <<>> THEN Err("parse_u8", "Empty")
    ELSE IF Len(s) = 1 /\ s[1] \in {"+", "-"} THEN Err("parse_u8", "InvalidDigit")
    ELSE parse_u8_digits(IF s[1] = "+" THEN Tail(s) ELSE s, 0)

\* s.ends_with('%') and the slice that drops it
drop_percent(s) ==
    IF Len(s) > 0 /\ s[Len(s)] = "%" THEN SubSeq(s, 1, Len(s) - 1) ELSE s

\* <Action as FromStr>::from_str, with percentage <= 100 replaced by percentage < 100
from_str_excl(s) ==
    IF s = <<>> THEN Ok(Get)
    ELSE LET mode == IF s[1] = "+" THEN "RelativeUp"
                     ELSE IF s[1] = "-" THEN "RelativeDown"
                     ELSE "Absolute"
             rest == drop_percent(IF s[1] \in {"+", "-"} THEN Tail(s) ELSE s)
             r == parse_u8(rest)
         IN  IF ~r.ok THEN Err("could not parse", r.cause)
             ELSE IF r.val >= 100 THEN Err("is greater than 100%", "None")
             ELSE Ok(Set(r.val, mode))

\* <Action as FromStr>::from_str
from_str(s) ==
    IF s = <<>> THEN Ok(Get)
    ELSE LET mode == IF s[1] = "+" THEN "RelativeUp"
                     ELSE IF s[1] = "-" THEN "RelativeDown"
                     ELSE "Absolute"
             rest == drop_percent(IF s[1] \in {"+", "-"} THEN Tail(s) ELSE s)
             r == parse_u8(rest)
         IN  IF ~r.ok THEN Err("could not parse", r.cause)
             ELSE IF r.val > 100 THEN Err("is greater than 100%", "None")
             ELSE Ok(Set(r.val, mode))

Unparsed == [ok |-> FALSE, message |-> "unparsed", cause |-> "None"]

(***************************************************************************)
(* f64                                                                     *)
(***************************************************************************)
\* a finite f64 whose exact value is n/d; lo: the double lies just below n/d
Fin(n, d) == [k |-> "fin", n |-> n, d |-> d, lo |-> FALSE]

NaN == [k |-> "nan", n |-> 0, d |-> 1, lo |-> FALSE]

Inf == [k |-> "inf", n |-> 1, d |-> 1, lo |-> FALSE]

\* f64::from(u32) / f64::from(u8)
f64_from(n) == Fin(n, 1)

\* a / b for a >= 0, b >= 0: x/0 is +inf, 0/0 is NaN
f64_div(a, b) ==
    IF b.n = 0 THEN (IF a.n = 0 THEN NaN ELSE Inf)
    ELSE Fin(a.n * b.d, a.d * b.n)

\* a + b, b finite
f64_add(a, b) ==
    IF a.k = "fin" THEN Fin(a.n * b.d + b.n * a.d, a.d * b.d) ELSE a

\* a - b, b finite
f64_sub(a, b) ==
    IF a.k = "fin" THEN Fin(a.n * b.d - b.n * a.d, a.d * b.d) ELSE a

\* a * b, a finite and non-negative: 0 * inf is NaN
f64_mul(a, b) ==
    IF b.k = "nan" THEN NaN
    ELSE IF b.k = "inf" THEN (IF a.n = 0 THEN NaN ELSE Inf)
    ELSE [k |-> "fin", n |-> a.n * b.n, d |-> a.d * b.d, lo |-> b.lo]

\* f64::clamp(0.0, 1.0): NaN stays NaN
f64_clamp(x) ==
    IF x.k = "nan" THEN NaN
    ELSE IF x.k = "inf" THEN Fin(1, 1)
    ELSE IF x.n < 0 THEN Fin(0, 1)
    ELSE IF x.n > x.d THEN Fin(1, 1)
    ELSE x

\* f64::round (half away from zero) followed by `as u32` (NaN to 0), for x >= 0.
\* x is NaN or finite here: it is max_brightness * (a clamped value), and the
\* clamped value is NaN or within 0..1.
f64_round_as_u32(x) ==
    IF x.k # "fin" THEN 0
    ELSE LET floor == x.n \div x.d
             twice == 2 * (x.n % x.d)
         IN  IF twice > x.d THEN floor + 1
             ELSE IF twice = x.d THEN (IF x.lo THEN floor ELSE floor + 1)
             ELSE floor

\* format!("{:.0}", x): nearest integer, ties to even, x >= 0
format_0(x) ==
    IF x.k # "fin" THEN [k |-> x.k, v |-> 0]
    ELSE LET floor == x.n \div x.d
             twice == 2 * (x.n % x.d)
         IN  [k |-> "fin",
              v |-> IF twice > x.d \/ (twice = x.d /\ floor % 2 = 1) THEN floor + 1 ELSE floor]

NoOutput == [k |-> "none", v |-> 0]

(***************************************************************************)
(* The inputs <<mode, max_brightness, change, brightness>>, within         *)
(* max_brightness in 0..5, 34, 100 and brightness <= max_brightness + 3,   *)
(* for which max_brightness * (brightness/max_brightness -+ change/100) is *)
(* k + 1/2 in the reals but the IEEE-754 double computed by lines 83-94    *)
(* and 61 is below it (each operation rounded to nearest, ties to even).   *)
(* At every other input of that range the double rounds as the real does.  *)
(***************************************************************************)
F64BelowTie ==
    { <<"RelativeDown", 3, 50, 2>>, <<"RelativeDown", 5, 50, 3>>,
      <<"RelativeDown", 5, 90, 5>>, <<"RelativeDown", 5, 90, 6>>,
      <<"RelativeDown", 5, 90, 7>>,
      <<"RelativeDown", 34, 25, 13>>, <<"RelativeDown", 34, 25, 14>>,
      <<"RelativeDown", 34, 25, 35>>, <<"RelativeDown", 34, 25, 37>>,
      <<"RelativeDown", 34, 75, 26>>, <<"RelativeDown", 34, 75, 27>>,
      <<"RelativeDown", 34, 75, 28>>, <<"RelativeDown", 34, 75, 29>>,
      <<"RelativeDown", 34, 75, 30>>, <<"RelativeDown", 34, 75, 31>>,
      <<"RelativeDown", 34, 75, 35>>, <<"RelativeDown", 34, 75, 37>> }

\* the sum or difference of lines 86 / 94 as the f64 that was computed
Computed(x, mode, max, change, brightness) ==
    [x EXCEPT !.lo = (x.k = "fin" /\ <<mode, max, change, brightness>> \in F64BelowTie)]

(***************************************************************************)
(* Option, device I/O                                                      *)
(***************************************************************************)
Some(v) == [some |-> TRUE, v |-> v]

None == [some |-> FALSE, v |-> NaN]

\* read_file_as_u32: the number in the file, or an error (open, UTF-8, not a number)
read_file_as_u32(content) == {Ok(content), Err("could not read", "io")}

\* write_file_from_u32: TRUE when the number was written
write_file_from_u32 == {TRUE, FALSE}

(***************************************************************************)
(* Action::calculate_new_percentage.  get_brightness is the Result the     *)
(* closure returns if it is called; `called` tells whether it was, and     *)
(* `printed` what println! wrote.                                          *)
(***************************************************************************)
Calculated(called, printed, res) == [called |-> called, printed |-> printed, res |-> res]

\* calculate_new_percentage with Set(_, Absolute) computed from the current level
calculate_new_percentage_abs_current(self, max, get_brightness) ==
    IF self.tag = "Get" THEN
        IF ~get_brightness.ok THEN Calculated(TRUE, NoOutput, get_brightness)
        ELSE Calculated(TRUE,
                        format_0(f64_mul(f64_from(100),
                                         f64_div(f64_from(get_brightness.val), f64_from(max)))),
                        Ok(None))
    ELSE
        IF ~get_brightness.ok THEN Calculated(TRUE, NoOutput, get_brightness)
        ELSE LET brightness == get_brightness.val
                 current == f64_div(f64_from(brightness), f64_from(max))
                 delta == f64_div(f64_from(self.change), f64_from(100))
                 sum == IF self.mode = "RelativeDown" THEN f64_sub(current, delta)
                        ELSE f64_add(current, delta)
             IN  Calculated(TRUE, NoOutput,
                            Ok(Some(Computed(sum, self.mode, max, self.change, brightness))))

\* calculate_new_percentage with the `?` after get_brightness() replaced by unwrap_or(0)
calculate_new_percentage_no_abort(self, max, get_brightness) ==
    LET brightness == IF get_brightness.ok THEN get_brightness.val ELSE 0
        current == f64_div(f64_from(brightness), f64_from(max))
    IN  IF self.tag = "Get" THEN
            Calculated(TRUE, format_0(f64_mul(f64_from(100), current)), Ok(None))
        ELSE IF self.mode = "Absolute" THEN
            Calculated(FALSE, NoOutput,
                       Ok(Some(f64_div(f64_from(self.change), f64_from(100)))))
        ELSE LET delta == f64_div(f64_from(self.change), f64_from(100))
                 sum == IF self.mode = "RelativeDown" THEN f64_sub(current, delta)
                        ELSE f64_add(current, delta)
             IN  Calculated(TRUE, NoOutput,
                            Ok(Some(Computed(sum, self.mode, max, self.change, brightness))))

\* calculate_new_percentage with Get returning Some(current) instead of None
calculate_new_percentage_get_some(self, max, get_brightness) ==
    IF self.tag = "Set" /\ self.mode = "Absolute" THEN
        Calculated(FALSE, NoOutput, Ok(Some(f64_div(f64_from(self.change), f64_from(100)))))
    ELSE IF ~get_brightness.ok THEN Calculated(TRUE, NoOutput, get_brightness)
    ELSE LET brightness == get_brightness.val
             current == f64_div(f64_from(brightness), f64_from(max))
         IN  IF self.tag = "Get" THEN
                 Calculated(TRUE, format_0(f64_mul(f64_from(100), current)), Ok(Some(current)))
             ELSE LET delta == f64_div(f64_from(self.change), f64_from(100))
                      sum == IF self.mode = "RelativeDown" THEN f64_sub(current, delta)
                             ELSE f64_add(current, delta)
                  IN  Calculated(TRUE, NoOutput,
                                 Ok(Some(Computed(sum, self.mode, max, self.change, brightness))))

\* Action::calculate_new_percentage
calculate_new_percentage(self, max, get_brightness) ==
    IF self.tag = "Set" /\ self.mode = "Absolute" THEN
        Calculated(FALSE, NoOutput, Ok(Some(f64_div(f64_from(self.change), f64_from(100)))))
    ELSE IF ~get_brightness.ok THEN Calculated(TRUE, NoOutput, get_brightness)
    ELSE LET brightness == get_brightness.val
             current == f64_div(f64_from(brightness), f64_from(max))
         IN  IF self.tag = "Get" THEN
                 Calculated(TRUE, format_0(f64_mul(f64_from(100), current)), Ok(None))
             ELSE LET delta == f64_div(f64_from(self.change), f64_from(100))
                      sum == IF self.mode = "RelativeDown" THEN f64_sub(current, delta)
                             ELSE f64_add(current, delta)
                  IN  Calculated(TRUE, NoOutput,
                                 Ok(Some(Computed(sum, self.mode, max, self.change, brightness))))

\* new_value without the clamp
new_value_unclamped(max, p) ==
    IF p.k = "fin" /\ p.n < 0 THEN 0
    ELSE f64_round_as_u32(f64_mul(f64_from(max), p))

\* new_value with the product truncated instead of rounded
new_value_truncated(max, p) ==
    LET x == f64_mul(f64_from(max), f64_clamp(p))
    IN  IF x.k # "fin" THEN 0 ELSE x.n \div x.d

\* execute's new_value: (f64::from(max_brightness) * percentage.clamp(0.0, 1.0)).round() as u32
new_value(max, p) == f64_round_as_u32(f64_mul(f64_from(max), f64_clamp(p)))

(***************************************************************************)
(* The command line                                                        *)
(***************************************************************************)
argv0 == <<"e">>

Help == {<<"-", "h">>, <<"-", "-", "h", "e", "l", "p">>}

\* what a user may type as ACTION: the whole grammar, help, and some junk
ArgStrings ==
    Numerals(100) \cup Help \cup
    { <<>>, <<"h", "i">>, <<"+">>, <<"%">>, <<"1", "0", "1">>, <<"2", "5", "6">>,
      <<"1", ".", "2">>, <<"+", "+", "5">> }

Argvs ==
    {<<argv0>>} \cup {<<argv0, a>> : a \in ArgStrings} \cup {<<argv0, <<"5">>, <<"5">>>>}

Other == [tag |-> "Other"]

\* the Set(_, Absolute) that the process which just ended ran to exit status 0, if it did
Summary ==
    IF status = 0 /\ action.tag = "Set" /\ action.mode = "Absolute" THEN action ELSE Other

\* `previous` is kept while the new process repeats that action or runs Get
Follows(prev, act) == IF act = Get \/ act = prev THEN prev ELSE Other

(***************************************************************************)
(* Processes.  One process runs at a time; the next one is started when    *)
(* the previous one has exited.                                            *)
(***************************************************************************)
\* std::process::exit(code)
Exit(code) == pc' = "exited" /\ status' = code

\* the program is run again: a fresh process at the entry of main
run_again ==
    /\ pc = "exited"
    /\ pc' = "start"
    /\ action' = NoAction
    /\ max_brightness' = 0
    /\ percentage' = None
    /\ status' = -1
    /\ stdout' = NoOutput
    /\ trace' = <<>>
    /\ brightness0' = brightness_file
    /\ previous' = Summary
    /\ UNCHANGED <<brightness_file, max_brightness_file, input, parsed>>

\* main with the max_brightness read moved in front of the argument handling
main_reads_first ==
    /\ pc = "start"
    /\ \E args \in Argvs :
        IF Len(args) > 2 \/ (Len(args) = 2 /\ args[2] \in Help) THEN
            action' = NoAction /\ previous' = Other /\ trace' = <<"read_max">> /\ Exit(2)
        ELSE IF Len(args) = 2 THEN
            LET r == from_str(args[2])
            IN  /\ trace' = <<"read_max", IF r.ok THEN "parse" ELSE "parse_failed">>
                /\ IF r.ok
                   THEN /\ action' = r.val
                        /\ previous' = Follows(previous, r.val)
                        /\ pc' = "execute"
                        /\ UNCHANGED status
                   ELSE action' = NoAction /\ previous' = Other /\ Exit(2)
        ELSE /\ action' = Get
             /\ previous' = Follows(previous, Get)
             /\ trace' = <<"read_max">>
             /\ pc' = "execute"
             /\ UNCHANGED status
    /\ UNCHANGED <<brightness_file, max_brightness_file, max_brightness, percentage,
                   stdout, brightness0, input, parsed>>

\* main, lines 7-29: from the arguments to the Action, or to usage()
main ==
    /\ pc = "start"
    /\ \E args \in Argvs :
        IF Len(args) > 2 \/ (Len(args) = 2 /\ args[2] \in Help) THEN
            action' = NoAction /\ previous' = Other /\ trace' = <<>> /\ Exit(2)
        ELSE IF Len(args) = 2 THEN
            LET r == from_str(args[2])
            IN  /\ trace' = <<IF r.ok THEN "parse" ELSE "parse_failed">>
                /\ IF r.ok
                   THEN /\ action' = r.val
                        /\ previous' = Follows(previous, r.val)
                        /\ pc' = "execute"
                        /\ UNCHANGED status
                   ELSE action' = NoAction /\ previous' = Other /\ Exit(2)
        ELSE /\ action' = Get
             /\ previous' = Follows(previous, Get)
             /\ trace' = <<>>
             /\ pc' = "execute"
             /\ UNCHANGED status
    /\ UNCHANGED <<brightness_file, max_brightness_file, max_brightness, percentage,
                   stdout, brightness0, input, parsed>>

\* execute, line 55: let max_brightness = read_file_as_u32(PATH_MAX_BRIGHTNESS)?
execute_read_max ==
    /\ pc = "execute"
    /\ \E r \in read_file_as_u32(max_brightness_file) :
        /\ trace' = Append(trace, IF r.ok THEN "read_max" ELSE "read_max_failed")
        /\ IF r.ok THEN max_brightness' = r.val /\ pc' = "calculate" /\ UNCHANGED status
           ELSE UNCHANGED max_brightness /\ Exit(1)
    /\ UNCHANGED <<brightness_file, max_brightness_file, action, percentage, stdout,
                   brightness0, previous, input, parsed>>

\* execute, lines 57-58: self.calculate_new_percentage(max_brightness, || read_file_as_u32(PATH_BRIGHTNESS))?
execute_calculate ==
    /\ pc = "calculate"
    /\ \E get_brightness \in read_file_as_u32(brightness_file) :
        LET c == calculate_new_percentage(action, max_brightness, get_brightness)
        IN  /\ trace' = IF ~c.called THEN trace
                        ELSE IF get_brightness.ok THEN Append(trace, "read_brightness")
                        ELSE Append(trace, "read_brightness_failed")
            /\ stdout' = c.printed
            /\ IF ~c.res.ok THEN UNCHANGED percentage /\ Exit(1)
               ELSE IF c.res.val.some THEN
                    percentage' = c.res.val /\ pc' = "write" /\ UNCHANGED status
               ELSE UNCHANGED percentage /\ Exit(0)
    /\ UNCHANGED <<brightness_file, max_brightness_file, action, max_brightness,
                   brightness0, previous, input, parsed>>

\* execute, lines 60-66: clamp, round, write_file_from_u32(PATH_BRIGHTNESS, new_value)?
execute_write ==
    /\ pc = "write"
    /\ \E written \in write_file_from_u32 :
        /\ trace' = Append(trace, IF written THEN "write" ELSE "write_failed")
        /\ IF written
           THEN brightness_file' = new_value(max_brightness, percentage.v) /\ Exit(0)
           ELSE UNCHANGED brightness_file /\ Exit(1)
    /\ UNCHANGED <<max_brightness_file, action, max_brightness, percentage, stdout,
                   brightness0, previous, input, parsed>>

Init ==
    /\ max_brightness_file \in MaxLevels
    /\ brightness_file \in 0 .. (max_brightness_file + Over)
    /\ pc = "start"
    /\ action = NoAction
    /\ max_brightness = 0
    /\ percentage = None
    /\ status = -1
    /\ stdout = NoOutput
    /\ trace = <<>>
    /\ brightness0 = brightness_file
    /\ previous = Other
    /\ input = <<>>
    /\ parsed = Unparsed

Next == run_again \/ main \/ execute_read_max \/ execute_calculate \/ execute_write

Spec == Init /\ [][Next]_vars

(***************************************************************************)
(* The parser on its own: from_str applied to one input.                   *)
(***************************************************************************)
ParseInputs == Numerals(MaxNumber) \cup StringsUpTo(MaxLen)

InitParse ==
    /\ input \in ParseInputs
    /\ parsed = Unparsed
    /\ max_brightness_file = 100
    /\ brightness_file = 0
    /\ pc = "start"
    /\ action = NoAction
    /\ max_brightness = 0
    /\ percentage = None
    /\ status = -1
    /\ stdout = NoOutput
    /\ trace = <<>>
    /\ brightness0 = 0
    /\ previous = Other

\* str::parse::<Action>(input)
Parse ==
    /\ parsed = Unparsed
    /\ parsed' = from_str(input)
    /\ UNCHANGED <<brightness_file, max_brightness_file, pc, action, max_brightness,
                   percentage, status, stdout, trace, brightness0, previous, input>>

NextParse == Parse

SpecParse == InitParse /\ [][NextParse]_vars

(***************************************************************************)
(* Properties of the parser (SpecParse)                                    *)
(***************************************************************************)
ModeOf(sign) ==
    IF sign = <<"+">> THEN "RelativeUp"
    ELSE IF sign = <<"-">> THEN "RelativeDown"
    ELSE "Absolute"

\* the input after stripping at most one leading sign and one trailing '%'
Remainder(s) ==
    IF s = <<>> THEN s
    ELSE drop_percent(IF s[1] \in {"+", "-"} THEN Tail(s) ELSE s)

AllDigits(s) == \A i \in 1 .. Len(s) : to_digit(s[i]) # -1

RECURSIVE DecimalValue(_)
\* the number a non-empty string of digits denotes
DecimalValue(s) ==
    IF s = <<>> THEN 0 ELSE 10 * DecimalValue(SubSeq(s, 1, Len(s) - 1)) + to_digit(s[Len(s)])

\* C1: the empty string parses to Get, and every string sign+m+percent with m in
\* 0..100, sign one of "", "+", "-" and percent one of "", "%" parses to exactly
\* Set(m, mode), mode being Absolute, RelativeUp, RelativeDown for the three signs.
C1_ParserAcceptsGrammar ==
    parsed # Unparsed =>
        /\ (input = <<>> => parsed = Ok(Get))
        /\ \A sign \in Signs, m \in 0 .. 100, pct \in Percents :
              input = sign \o ToDecimal(m) \o pct => parsed = Ok(Set(m, ModeOf(sign)))

\* "-0%" has been parsed, to Set(0, RelativeDown)
C1_Witness ==
    /\ input = <<"-", "0", "%">>
    /\ parsed = Ok(Set(0, "RelativeDown"))

\* C2: parsing never yields a magnitude above 100; a remainder (after one sign and
\* one '%' are stripped) that is empty, contains a character that is not a digit,
\* or denotes a number above 100 is an error; the not-an-integer error and the
\* greater-than-100 error are different errors.
C2_ParserRejectsTheRest ==
    parsed # Unparsed =>
        LET rest == Remainder(input)
        IN  /\ (parsed.ok /\ parsed.val.tag = "Set" => parsed.val.change <= 100)
            /\ (input # <<>> /\ (rest = <<>> \/ ~AllDigits(rest)) =>
                    ~parsed.ok /\ parsed.message = "could not parse")
            /\ (rest # <<>> /\ AllDigits(rest) /\ DecimalValue(rest) > 100 => ~parsed.ok)
            /\ (~parsed.ok /\ parsed.message = "is greater than 100%" =>
                    rest # <<>> /\ AllDigits(rest) /\ DecimalValue(rest) > 100)

(***************************************************************************)
(* Properties of a run of the program (Spec)                               *)
(***************************************************************************)
Min(a, b) == IF a < b THEN a ELSE b

Max(a, b) == IF a > b THEN a ELSE b

Abs(a) == IF a < 0 THEN -a ELSE a

\* the device operations attempted so far by the current process, outcome dropped
DeviceOps ==
    LET Op(e) == IF e \in {"read_max", "read_max_failed"} THEN "read_max"
                 ELSE IF e \in {"read_brightness", "read_brightness_failed"} THEN "read_brightness"
                 ELSE "write"
    IN  [i \in 1 .. Len(SelectSeq(trace, LAMBDA e : e \notin {"parse", "parse_failed"})) |->
            Op(SelectSeq(trace, LAMBDA e : e \notin {"parse", "parse_failed"})[i])]

Happened(e) == \E i \in 1 .. Len(trace) : trace[i] = e

Succeeded == pc = "exited" /\ status = 0

\* C3: with max_brightness 100 and a current level c in 0..100, a successful
\* Set(m, mode) leaves the level at m (Absolute), min(100, c + m) (RelativeUp) or
\* max(0, c - m) (RelativeDown); a relative result out of range is clamped.
C3_PolicyAtMax100 ==
    (Succeeded /\ action.tag = "Set" /\ max_brightness = 100 /\ brightness0 <= 100) =>
        /\ Happened("write")
        /\ brightness_file =
              IF action.mode = "Absolute" THEN action.change
              ELSE IF action.mode = "RelativeUp" THEN Min(100, brightness0 + action.change)
              ELSE Max(0, brightness0 - action.change)

\* Set(10, RelativeUp) at level 95 of 100 has written 100
C3_Witness ==
    /\ Succeeded
    /\ action = Set(10, "RelativeUp")
    /\ max_brightness = 100
    /\ brightness0 = 95
    /\ brightness_file = 100

\* C4: Get yields no percentage, writes nothing, and leaves the level as it was.
C4_GetIsNoOp ==
    action = Get =>
        /\ ~percentage.some
        /\ pc # "write"
        /\ ~Happened("write") /\ ~Happened("write_failed")
        /\ brightness_file = brightness0

\* Get has run to the end, on a device whose level is above zero
C4_Witness ==
    /\ Succeeded
    /\ action = Get
    /\ Happened("read_brightness")
    /\ brightness_file > 0

\* C5: the device operations of a process are, in this order, one read of
\* max_brightness (always, once execute runs), at most one read of the current
\* level (only for Get, RelativeUp, RelativeDown), at most one write (only for
\* Set; exactly one when a Set succeeds, none for Get).
C5_DeviceOpsOrder ==
    /\ DeviceOps \in {<<>>, <<"read_max">>, <<"read_max", "read_brightness">>,
                      <<"read_max", "write">>, <<"read_max", "read_brightness", "write">>}
    /\ (pc \in {"calculate", "write"} \/ (pc = "exited" /\ status \in {0, 1})) =>
            Len(DeviceOps) >= 1
    /\ (\E i \in 1 .. Len(DeviceOps) : DeviceOps[i] = "read_brightness") =>
            action = Get \/ (action.tag = "Set" /\ action.mode \in {"RelativeUp", "RelativeDown"})
    /\ (\E i \in 1 .. Len(DeviceOps) : DeviceOps[i] = "write") => action.tag = "Set"
    /\ (Succeeded /\ action.tag = "Set") => Happened("write")

\* Set(_, Absolute) has succeeded with one read and one write
C5_Witness ==
    /\ Succeeded
    /\ action.tag = "Set" /\ action.mode = "Absolute"
    /\ trace = <<"parse", "read_max", "write">>

\* C6: a failed device operation is the last thing the process does: nothing is
\* read or written after it (after a failed read of max_brightness nothing else
\* was attempted at all), the level is unchanged, and the exit status is 1.
C6_IoFailureAborts ==
    \A i \in 1 .. Len(trace) :
        trace[i] \in {"read_max_failed", "read_brightness_failed", "write_failed"} =>
            /\ i = Len(trace)
            /\ pc = "exited" /\ status = 1
            /\ brightness_file = brightness0
            /\ (trace[i] = "read_max_failed" => Len(DeviceOps) = 1)

\* a relative Set whose read of the current level failed
C6_Witness ==
    /\ action.tag = "Set" /\ action.mode = "RelativeUp" /\ action.change > 0
    /\ Happened("read_brightness_failed")
    /\ status = 1

\* C7 as stated: for every max_brightness >= 1, Get right after a successful
\* Set(p, Absolute) reports a percentage within 1 of p.
C7_RoundTripWithinOne ==
    (Succeeded /\ action = Get /\ previous # Other /\ max_brightness >= 1) =>
        stdout.k = "fin" /\ Abs(stdout.v - previous.change) <= 1

\* C7 amended: the same for every max_brightness >= 34.
C7_RoundTripWithinOneFrom34 ==
    (Succeeded /\ action = Get /\ previous # Other /\ max_brightness >= 34) =>
        stdout.k = "fin" /\ Abs(stdout.v - previous.change) <= 1

\* Get after Set(p, Absolute) reports p + 1 or p - 1 on a device with 34 levels
C7_Witness ==
    /\ Succeeded
    /\ action = Get
    /\ previous # Other
    /\ max_brightness = 34
    /\ Abs(stdout.v - previous.change) = 1

\* C8: running the same Set(p, Absolute) a second time leaves the level that the
\* first run wrote; no run of Set(p, Absolute) reads the current level.
C8_AbsoluteIdempotent ==
    /\ (Succeeded /\ action.tag = "Set" /\ action.mode = "Absolute" /\ previous = action) =>
            Happened("write") /\ brightness_file = brightness0
    /\ (action.tag = "Set" /\ action.mode = "Absolute") =>
            ~Happened("read_brightness") /\ ~Happened("read_brightness_failed")

\* the second Set(p, Absolute) has written, the first one having changed the level
C8_Witness ==
    /\ Succeeded
    /\ action.tag = "Set" /\ action.mode = "Absolute" /\ previous = action
    /\ Happened("write")
    /\ action.change \in 1 .. 99
    /\ max_brightness = 34

\* C9: every level written lies in 0..max_brightness.
C9_WrittenLevelInRange ==
    Happened("write") =>
        /\ max_brightness = max_brightness_file
        /\ brightness_file \in 0 .. max_brightness

\* a RelativeUp has written although the level read was above max_brightness
C9_Witness ==
    /\ Happened("write")
    /\ action.tag = "Set" /\ action.mode = "RelativeUp" /\ action.change > 0
    /\ brightness0 > max_brightness
    /\ max_brightness > 0

\* C10 as stated: max_brightness has been read by the time the argument is
\* parsed, so a process that reports a parse error has read it.
C10_MaxReadBeforeParse ==
    \A i \in 1 .. Len(trace) :
        trace[i] \in {"parse", "parse_failed"} =>
            \E j \in 1 .. (i - 1) : trace[j] \in {"read_max", "read_max_failed"}

\* C10 amended: the argument is parsed before anything is read from the device,
\* then max_brightness is read, then the current level if needed, then the
\* write; a process that reports a parse error has read nothing.
C10_ParseBeforeMaxRead ==
    /\ \A i \in 1 .. Len(trace) : trace[i] \in {"parse", "parse_failed"} => i = 1
    /\ Happened("parse_failed") => trace = <<"parse_failed">> /\ pc = "exited" /\ status = 2
    /\ \A i \in 1 .. Len(trace) :
          trace[i] \in {"read_brightness", "read_brightness_failed", "write", "write_failed"} =>
              \E j \in 1 .. (i - 1) : trace[j] = "read_max"

\* a process was refused for its argument, after an earlier one ran to its write
C10_Witness ==
    /\ trace = <<"parse_failed">>
    /\ status = 2
    /\ brightness_file # max_brightness_file + Over

====
